---- MODULE Spec2Model ----
(***************************************************************************)
(* A model of src/main.py: the JobSpy API, a FastAPI service with the      *)
(* handlers test_jobspy (GET /test), search_jobs_simple                    *)
(* (GET /search-jobs-simple) and search_jobs_post (POST /search-jobs).     *)
(*                                                                         *)
(* Requests are independent and the service keeps no state between them,   *)
(* so a behaviour of the model is the life of one request: it is received, *)
(* the framework validates it, the handler runs statement by statement     *)
(* (log, import, scrape call, response or except branch) and a response is *)
(* emitted.  The external library (jobspy.scrape_jobs) and the import of   *)
(* it are the environment: their outcome is chosen nondeterministically.   *)
(*                                                                         *)
(* Python values are records [kind, s, n, b, l]; every value carries all   *)
(* five fields so that any two of them can be compared.                    *)
(***************************************************************************)
EXTENDS Integers, Sequences, FiniteSets, TLC

VARIABLES pc, endpoint, request, called, kwargs, imported, jobs_df, exc,
          log, response

vars == <<pc, endpoint, request, called, kwargs, imported, jobs_df, exc,
          log, response>>

(***************************************************************************)
(* Bounds of the model and constants of the program.                       *)
(***************************************************************************)
MaxRows == 2

SimpleGe == 1
SimpleLe == 20
PostGe == 1
PostLe == 50

(***************************************************************************)
(* Python values.                                                          *)
(***************************************************************************)
PyVal(k, str, num, bool, lst) ==
    [kind |-> k, s |-> str, n |-> num, b |-> bool, l |-> lst]

PyStr(x) == PyVal("str", x, 0, FALSE, <<>>)
PyInt(x) == PyVal("int", "", x, FALSE, <<>>)
PyFloat(x) == PyVal("float", "", x, FALSE, <<>>)
PyBool(x) == PyVal("bool", "", 0, x, <<>>)
PyList(x) == PyVal("list", "", 0, FALSE, x)
None == PyVal("none", "", 0, FALSE, <<>>)
NaN == PyVal("nan", "", 0, FALSE, <<>>)

\* Python truthiness, as `if v` of the dict comprehension evaluates it.
Truthy_NotNone(v) == v.kind # "none"

Truthy(v) ==
    CASE v.kind = "str" -> v.s # ""
      [] v.kind = "int" -> v.n # 0
      [] v.kind = "float" -> v.n # 0
      [] v.kind = "bool" -> v.b
      [] v.kind = "list" -> v.l # <<>>
      [] v.kind = "none" -> FALSE
      [] v.kind = "nan" -> TRUE

(***************************************************************************)
(* The requests a client can send.  results_wanted is an integer on both   *)
(* endpoints (Optional[int] on POST, so null is accepted there); is_remote *)
(* is Optional[bool].  The GET endpoint has no site_name and no is_remote. *)
(***************************************************************************)
ParamNames == {"search_term", "location", "site_name", "results_wanted", "is_remote"}

SearchTerms == {PyStr(""), PyStr("developer")}
Locations == {PyStr(""), PyStr("Remote")}
SiteNames == {PyList(<<>>), PyList(<<"linkedin", "indeed">>)}
SimpleCounts == {PyInt(SimpleGe - 1), PyInt(SimpleGe), PyInt(SimpleLe), PyInt(SimpleLe + 1)}
PostCounts == {None, PyInt(PostGe - 1), PyInt(PostGe), PyInt(PostLe), PyInt(PostLe + 1)}
RemoteFlags == {None, PyBool(FALSE), PyBool(TRUE)}

MkRequest(st, loc, sites, rw, rem) ==
    [search_term |-> st, location |-> loc, site_name |-> sites,
     results_wanted |-> rw, is_remote |-> rem]

NoRequest == MkRequest(None, None, None, None, None)

SimpleRequests ==
    {MkRequest(st, loc, None, rw, None) :
        st \in SearchTerms, loc \in Locations, rw \in SimpleCounts}

PostRequests ==
    {MkRequest(st, loc, sites, rw, rem) :
        st \in SearchTerms, loc \in Locations, sites \in SiteNames,
        rw \in PostCounts, rem \in RemoteFlags}

(***************************************************************************)
(* What the environment can answer.  A DataFrame is its column names and   *)
(* its rows (each a mapping from the columns to cell values).  scrape_jobs *)
(* returns pd.DataFrame() (no columns, no rows) when it finds nothing and  *)
(* a frame over its column schema otherwise.                               *)
(***************************************************************************)
Columns == {"title", "min_amount"}
Cells == {PyStr("Engineer"), PyFloat(0), NaN, None}
Rows == [Columns -> Cells]

RECURSIVE SeqsUpTo(_, _)
SeqsUpTo(S, n) ==
    IF n = 0 THEN {<<>>}
    ELSE LET shorter == SeqsUpTo(S, n - 1)
         IN  shorter \cup {Append(q, x) : q \in {r \in shorter : Len(r) = n - 1}, x \in S}

DataFrame(cols, recs) == [kind |-> "df", columns |-> cols, records |-> recs]
NoneResult == [kind |-> "none", columns |-> {}, records |-> <<>>]

DataFrames ==
    {DataFrame({}, <<>>)} \cup {DataFrame(Columns, recs) : recs \in SeqsUpTo(Rows, MaxRows)}

ScrapeResults == {NoneResult} \cup DataFrames

ExcMessages == {"", "connection timed out"}
ImportMessages == {"", "No module named jobspy"}
NoExc == [raised |-> FALSE, msg |-> ""]
Raised(m) == [raised |-> TRUE, msg |-> m]

(***************************************************************************)
(* Responses.  A response is an HTTP status code and a body; all bodies    *)
(* carry the same fields so that they can be compared.                     *)
(***************************************************************************)
Body(det, succ, msg, total, jobs, st, imp) ==
    [detail |-> det, success |-> succ, message |-> msg, total_jobs |-> total,
     jobs |-> jobs, status |-> st, jobspy_imported |-> imp]

NoResponse == [code |-> 0, shape |-> "none",
               body |-> Body("", FALSE, "", 0, <<>>, "", FALSE)]

HTTPError(code, det) ==
    [code |-> code, shape |-> "error",
     body |-> Body(det, FALSE, "", 0, <<>>, "", FALSE)]

SearchBody(succ, msg, total, jobs) ==
    [code |-> 200, shape |-> "search",
     body |-> Body("", succ, msg, total, jobs, "", FALSE)]

DiagBody(st, msg, imp) ==
    [code |-> 200, shape |-> "diag",
     body |-> Body("", FALSE, msg, 0, <<>>, st, imp)]

LogEntry(level, msg) == [level |-> level, msg |-> msg]

(***************************************************************************)
(* pandas, as the handlers use it.                                         *)
(***************************************************************************)
\* pd.isna(value) of a scalar: true of NaN and of None.
isna_Never(value) == FALSE

isna(value) == value.kind \in {"nan", "none"}

\* DataFrame.empty: true when any axis has length zero.
empty(df) == df.columns = {} \/ Len(df.records) = 0

\* DataFrame.to_dict('records'): one mapping per row, in row order.
to_dict_DropLast(df) == SubSeq(df.records, 1, Len(df.records) - 1)

to_dict(df) == df.records

\* `jobs_df is None or jobs_df.empty`
NoJobs(df) == df.kind = "none" \/ empty(df)

(***************************************************************************)
(* Request validation by the framework, before a handler runs.             *)
(***************************************************************************)
\* Query(5, ge=1, le=20) of search_jobs_simple; search_term is a str.
SimpleValid_NoUpper(req) ==
    /\ req.search_term.kind = "str"
    /\ req.location.kind = "str"
    /\ req.results_wanted.kind = "int"
    /\ req.results_wanted.n >= SimpleGe

SimpleValid(req) ==
    /\ req.search_term.kind = "str"
    /\ req.location.kind = "str"
    /\ req.results_wanted.kind = "int"
    /\ req.results_wanted.n >= SimpleGe
    /\ req.results_wanted.n <= SimpleLe

\* JobSearchRequest: results_wanted is Optional[int] with ge=1, le=50.
PostValid(req) ==
    /\ req.search_term.kind = "str"
    /\ req.location.kind = "str"
    /\ req.site_name.kind = "list"
    /\ req.results_wanted.kind \in {"int", "none"}
    /\ (req.results_wanted.kind = "int" =>
            /\ req.results_wanted.n >= PostGe
            /\ req.results_wanted.n <= PostLe)
    /\ req.is_remote.kind \in {"bool", "none"}

Valid(ep, req) ==
    CASE ep = "simple" -> SimpleValid(req)
      [] ep = "post" -> PostValid(req)
      [] ep = "test" -> TRUE

(***************************************************************************)
(* search_jobs_simple                                                      *)
(***************************************************************************)
\* The keyword arguments of the scrape_jobs call, as (name, value) pairs.
SimpleKwargs_NoTerm(req) ==
    {<<"location", req.location>>,
     <<"site_name", PyList(<<"indeed">>)>>,
     <<"results_wanted", req.results_wanted>>}

SimpleKwargs(req) ==
    {<<"search_term", req.search_term>>,
     <<"location", req.location>>,
     <<"site_name", PyList(<<"indeed">>)>>,
     <<"results_wanted", req.results_wanted>>}

\* jobs_list after the loop that sets every NaN value to None.
SimpleJobsList(df) ==
    LET jobs_list == to_dict(df)
    IN  [i \in 1..Len(jobs_list) |->
            [key \in DOMAIN jobs_list[i] |->
                IF isna(jobs_list[i][key]) THEN None ELSE jobs_list[i][key]]]

SimpleResponse_NotFound(df) ==
    IF NoJobs(df)
    THEN HTTPError(404, "No jobs found for the search criteria")
    ELSE LET jobs_list == SimpleJobsList(df)
         IN  SearchBody(TRUE, "Found " \o ToString(Len(jobs_list)) \o " jobs",
                        Len(jobs_list), jobs_list)

SimpleResponse(df) ==
    IF NoJobs(df)
    THEN SearchBody(TRUE, "No jobs found for the search criteria", 0, <<>>)
    ELSE LET jobs_list == SimpleJobsList(df)
         IN  SearchBody(TRUE, "Found " \o ToString(Len(jobs_list)) \o " jobs",
                        Len(jobs_list), jobs_list)

SimpleInfo(req) ==
    LogEntry("INFO", "Searching for: " \o req.search_term.s \o " in " \o req.location.s)

SimpleFound(df) ==
    IF NoJobs(df) THEN <<>>
    ELSE <<LogEntry("INFO", "Found " \o ToString(Len(SimpleJobsList(df))) \o " jobs")>>

SimpleError(e) == LogEntry("ERROR", "Search failed: " \o e.msg)

SimpleDetail(e) == "Search failed: " \o e.msg

(***************************************************************************)
(* search_jobs_post                                                        *)
(***************************************************************************)
search_params(req) ==
    {<<"search_term", req.search_term>>,
     <<"location", req.location>>,
     <<"site_name", req.site_name>>,
     <<"results_wanted", req.results_wanted>>,
     <<"is_remote", req.is_remote>>}

\* {k: v for k, v in search_params.items() if v}
PostKwargs(req) == {item \in search_params(req) : Truthy(item[2])}

PostJobsList(df) ==
    LET jobs_list == to_dict(df)
    IN  [i \in 1..Len(jobs_list) |->
            [key \in DOMAIN jobs_list[i] |->
                IF isna(jobs_list[i][key]) THEN None ELSE jobs_list[i][key]]]

PostResponse_Uncleaned(df) ==
    IF NoJobs(df)
    THEN SearchBody(TRUE, "No jobs found", 0, <<>>)
    ELSE LET jobs_list == to_dict(df)
         IN  SearchBody(TRUE, "Found " \o ToString(Len(jobs_list)) \o " jobs",
                        Len(jobs_list), jobs_list)

PostResponse(df) ==
    IF NoJobs(df)
    THEN SearchBody(TRUE, "No jobs found", 0, <<>>)
    ELSE LET jobs_list == PostJobsList(df)
         IN  SearchBody(TRUE, "Found " \o ToString(Len(jobs_list)) \o " jobs",
                        Len(jobs_list), jobs_list)

PostInfo(req) ==
    LogEntry("INFO", "POST search: " \o req.search_term.s \o " in " \o req.location.s)

PostError(e) == LogEntry("ERROR", "POST search failed: " \o e.msg)

PostDetail(e) == e.msg

(***************************************************************************)
(* test_jobspy                                                             *)
(***************************************************************************)
TestInfo == LogEntry("INFO", "JobSpy imported successfully")

TestError(e) == LogEntry("ERROR", "JobSpy test failed: " \o e.msg)

TestResponse_Raise(e) ==
    IF e.raised
    THEN HTTPError(500, "JobSpy test failed: " \o e.msg)
    ELSE DiagBody("success", "JobSpy is working correctly", TRUE)

TestResponse(e) ==
    IF e.raised
    THEN DiagBody("error", "JobSpy test failed: " \o e.msg, FALSE)
    ELSE DiagBody("success", "JobSpy is working correctly", TRUE)

(***************************************************************************)
(* What a handler does at each of its statements, by endpoint.             *)
(***************************************************************************)
Kwargs(ep, req) == IF ep = "simple" THEN SimpleKwargs(req) ELSE PostKwargs(req)

InfoEntry(ep, req) == IF ep = "simple" THEN SimpleInfo(req) ELSE PostInfo(req)

Response(ep, df) == IF ep = "simple" THEN SimpleResponse(df) ELSE PostResponse(df)

FoundEntries(ep, df) == IF ep = "simple" THEN SimpleFound(df) ELSE <<>>

\* logger.error(...) of the except branch of each handler.
LogFailure_Silent(l, ep, e) == l

LogFailure(l, ep, e) ==
    Append(l, CASE ep = "simple" -> SimpleError(e)
                [] ep = "post" -> PostError(e)
                [] ep = "test" -> TestError(e))

Detail(ep, e) == IF ep = "simple" THEN SimpleDetail(e) ELSE PostDetail(e)

(***************************************************************************)
(* The state machine of one request.                                       *)
(***************************************************************************)
Init ==
    /\ pc = "idle"
    /\ endpoint = "none"
    /\ request = NoRequest
    /\ called = FALSE
    /\ kwargs = {}
    /\ imported = FALSE
    /\ jobs_df = NoneResult
    /\ exc = NoExc
    /\ log = <<>>
    /\ response = NoResponse

\* A client sends a request to one of the endpoints.
Receive ==
    /\ pc = "idle"
    /\ \E ep \in {"simple", "post", "test"} :
          /\ endpoint' = ep
          /\ request' \in CASE ep = "simple" -> SimpleRequests
                            [] ep = "post" -> PostRequests
                            [] ep = "test" -> {NoRequest}
    /\ pc' = "received"
    /\ UNCHANGED <<called, kwargs, imported, jobs_df, exc, log, response>>

\* The framework rejects a request that fails the schema: HTTP 422, and the
\* handler is never entered.
Reject ==
    /\ pc = "received"
    /\ ~Valid(endpoint, request)
    /\ response' = HTTPError(422, "validation error")
    /\ pc' = "done"
    /\ UNCHANGED <<endpoint, request, called, kwargs, imported, jobs_df, exc, log>>

\* The handler is entered; the search handlers log the search first.
Enter ==
    /\ pc = "received"
    /\ Valid(endpoint, request)
    /\ log' = IF endpoint = "test" THEN log
              ELSE Append(log, InfoEntry(endpoint, request))
    /\ pc' = "import"
    /\ UNCHANGED <<endpoint, request, called, kwargs, imported, jobs_df, exc, response>>

\* `from jobspy import scrape_jobs` succeeds.
ImportOk ==
    /\ pc = "import"
    /\ imported' = TRUE
    /\ IF endpoint = "test"
       THEN /\ log' = Append(log, TestInfo)
            /\ pc' = "return"
       ELSE /\ log' = log
            /\ pc' = "scrape"
    /\ UNCHANGED <<endpoint, request, called, kwargs, jobs_df, exc, response>>

\* `from jobspy import scrape_jobs` raises.
ImportFails ==
    /\ pc = "import"
    /\ \E m \in ImportMessages : exc' = Raised(m)
    /\ pc' = "except"
    /\ UNCHANGED <<endpoint, request, called, kwargs, imported, jobs_df, log, response>>

\* scrape_jobs(...) is called and returns a result.
ScrapeReturns ==
    /\ pc = "scrape"
    /\ called' = TRUE
    /\ kwargs' = Kwargs(endpoint, request)
    /\ jobs_df' \in ScrapeResults
    /\ pc' = "return"
    /\ UNCHANGED <<endpoint, request, imported, exc, log, response>>

\* scrape_jobs(...) is called and raises.
ScrapeRaises ==
    /\ pc = "scrape"
    /\ called' = TRUE
    /\ kwargs' = Kwargs(endpoint, request)
    /\ \E m \in ExcMessages : exc' = Raised(m)
    /\ pc' = "except"
    /\ UNCHANGED <<endpoint, request, imported, jobs_df, log, response>>

\* The rest of the try block: the handler builds and returns its response.
Return ==
    /\ pc = "return"
    /\ IF endpoint = "test"
       THEN /\ response' = TestResponse(exc)
            /\ log' = log
       ELSE /\ response' = Response(endpoint, jobs_df)
            /\ log' = log \o FoundEntries(endpoint, jobs_df)
    /\ pc' = "done"
    /\ UNCHANGED <<endpoint, request, called, kwargs, imported, jobs_df, exc>>

\* except Exception as e: logger.error(...)
Except ==
    /\ pc = "except"
    /\ log' = LogFailure(log, endpoint, exc)
    /\ pc' = "surface"
    /\ UNCHANGED <<endpoint, request, called, kwargs, imported, jobs_df, exc, response>>

\* The except branch ends: the search handlers raise HTTPException(500), the
\* diagnostic handler returns its error payload.
Surface ==
    /\ pc = "surface"
    /\ response' = IF endpoint = "test" THEN TestResponse(exc)
                   ELSE HTTPError(500, Detail(endpoint, exc))
    /\ pc' = "done"
    /\ UNCHANGED <<endpoint, request, called, kwargs, imported, jobs_df, exc, log>>

Next ==
    \/ Receive
    \/ Reject
    \/ Enter
    \/ ImportOk
    \/ ImportFails
    \/ ScrapeReturns
    \/ ScrapeRaises
    \/ Return
    \/ Except
    \/ Surface

Spec == Init /\ [][Next]_vars

(***************************************************************************)
(* Vocabulary of the properties.                                           *)
(***************************************************************************)
Search == endpoint \in {"simple", "post"}

\* The scrape call returned (it did not raise) and the handler has answered.
Answered == pc = "done" /\ Search /\ called /\ ~exc.raised

Missing(cell) == cell.kind = "nan" \/ cell.kind = "none"

Named(name) == {item \in kwargs : item[1] = name}

FailureEntries(e) ==
    {LogEntry("ERROR", prefix \o e.msg) :
        prefix \in {"Search failed: ", "POST search failed: ", "JobSpy test failed: "}}

FailureLogged == \E i \in DOMAIN log : log[i] \in FailureEntries(exc)

OtherResponse ==
    IF endpoint = "simple" THEN PostResponse(jobs_df) ELSE SimpleResponse(jobs_df)

(***************************************************************************)
(* The properties.                                                         *)
(***************************************************************************)

\* C1: on both search endpoints, once the import or the scrape call has
\* raised, the request ends with an HTTP 500 whose detail is non-empty,
\* whatever the exception's message.
C1_Exception500NonEmptyDetail ==
    (pc = "done" /\ Search /\ exc.raised) =>
        /\ response.code = 500
        /\ response.shape = "error"
        /\ response.body.detail # ""

\* C2: when the scrape call returns a table of N rows, the success response
\* has total_jobs = N and N jobs in the row order of the table; and every
\* success response has total_jobs equal to the length of jobs.
C2_TotalJobsIsRowCount ==
    /\ (Answered /\ jobs_df.kind = "df") =>
          /\ response.code = 200
          /\ response.body.success
          /\ response.body.total_jobs = Len(jobs_df.records)
          /\ Len(response.body.jobs) = Len(jobs_df.records)
          /\ \A i \in 1..Len(jobs_df.records) :
                \A c \in DOMAIN jobs_df.records[i] :
                    ~Missing(jobs_df.records[i][c]) =>
                        response.body.jobs[i][c] = jobs_df.records[i][c]
    /\ response.shape = "search" =>
          response.body.total_jobs = Len(response.body.jobs)

C2_Witness ==
    /\ Answered
    /\ Len(jobs_df.records) = 2
    /\ jobs_df.records[1]["title"] = PyStr("Engineer")
    /\ jobs_df.records[2]["title"] = NaN
    /\ jobs_df.records[2]["min_amount"] = PyFloat(0)
    /\ response.body.total_jobs = 2

\* C3: when the scrape call returns None or a table without rows, the
\* response is a success: HTTP 200, success = true, total_jobs = 0, jobs = []
\* and a non-empty message.
C3_NoRowsIsSuccess ==
    (Answered /\ (jobs_df.kind = "none" \/ Len(jobs_df.records) = 0)) =>
        /\ response.code = 200
        /\ response.shape = "search"
        /\ response.body.success
        /\ response.body.total_jobs = 0
        /\ response.body.jobs = <<>>
        /\ response.body.message # ""

C3_Witness ==
    /\ Answered
    /\ endpoint = "simple"
    /\ jobs_df.kind = "none"
    /\ response.code = 200
    /\ response.body.total_jobs = 0

\* C4: for a non-empty result, jobs has the rows of the table with the same
\* field names, every missing-value marker replaced by null and every other
\* value unchanged.
C4_NaNBecomesNullOnly ==
    (Answered /\ jobs_df.kind = "df" /\ Len(jobs_df.records) > 0) =>
        /\ Len(response.body.jobs) = Len(jobs_df.records)
        /\ \A i \in 1..Len(jobs_df.records) :
              /\ DOMAIN response.body.jobs[i] = DOMAIN jobs_df.records[i]
              /\ \A c \in DOMAIN jobs_df.records[i] :
                    response.body.jobs[i][c] =
                        IF Missing(jobs_df.records[i][c]) THEN None
                        ELSE jobs_df.records[i][c]

C4_Witness ==
    /\ Answered
    /\ endpoint = "post"
    /\ Len(jobs_df.records) = 1
    /\ jobs_df.records[1]["title"] = PyStr("Engineer")
    /\ jobs_df.records[1]["min_amount"] = NaN
    /\ response.body.jobs[1]["min_amount"] = None
    /\ response.body.jobs[1]["title"] = PyStr("Engineer")

\* C5: a request whose results_wanted is an integer outside [1,20] on the GET
\* endpoint, or outside [1,50] on the POST endpoint, is answered with HTTP
\* 422 without any handler step: nothing is logged, nothing is imported and
\* scrape_jobs is never called.
C5_OutOfRange ==
    /\ request.results_wanted.kind = "int"
    /\ \/ endpoint = "simple" /\
            (request.results_wanted.n < 1 \/ request.results_wanted.n > 20)
       \/ endpoint = "post" /\
            (request.results_wanted.n < 1 \/ request.results_wanted.n > 50)

C5_OutOfRangeRejectedBeforeCall ==
    C5_OutOfRange =>
        /\ ~called
        /\ ~imported
        /\ log = <<>>
        /\ \/ pc = "received"
           \/ pc = "done" /\ response.code = 422

C5_Witness ==
    /\ pc = "done"
    /\ endpoint = "simple"
    /\ request.results_wanted = PyInt(21)
    /\ response.code = 422
    /\ ~called

\* C6: GET /test never ends in an error response: a failing import gives a
\* normal payload with status "error", jobspy_imported = false and a message
\* carrying the exception's text; a successful import gives status "success"
\* with jobspy_imported = true.
C6_TestNeverFails ==
    (pc = "done" /\ endpoint = "test") =>
        /\ response.code = 200
        /\ response.shape = "diag"
        /\ exc.raised =>
              /\ response.body.status = "error"
              /\ response.body.jobspy_imported = FALSE
              /\ response.body.message = "JobSpy test failed: " \o exc.msg
        /\ ~exc.raised =>
              /\ response.body.status = "success"
              /\ response.body.jobspy_imported = TRUE

C6_Witness ==
    /\ pc = "done"
    /\ endpoint = "test"
    /\ exc = Raised("No module named jobspy")
    /\ response.body.status = "error"

\* C7: on POST /search-jobs the arguments of the scrape call are exactly the
\* request's parameters whose value is not empty or falsy (empty string,
\* empty list, false, null, 0), each with its request value.
C7_Falsy(v) == v \in {PyStr(""), PyList(<<>>), PyBool(FALSE), None, PyInt(0)}

C7_OnlyTruthyParamsPassed ==
    (endpoint = "post" /\ called) =>
        /\ \A item \in kwargs :
              item[1] \in ParamNames /\ item[2] = request[item[1]]
        /\ \A name \in ParamNames :
              (Named(name) # {}) <=> ~C7_Falsy(request[name])

C7_Witness ==
    /\ endpoint = "post"
    /\ called
    /\ request.search_term = PyStr("developer")
    /\ request.location = PyStr("")
    /\ request.is_remote = PyBool(FALSE)
    /\ request.results_wanted = None
    /\ Named("search_term") # {}
    /\ Named("location") = {}

\* C8 as stated: every failure surfaced to the client, a validation
\* rejection included, has a log entry recording it before the response.
C8_EveryFailureLogged ==
    (response.code \in {422, 500} \/ response.body.status = "error") =>
        \E i \in DOMAIN log : log[i].level = "ERROR"

\* C8 as amended: every failure a handler catches (an import error or an
\* exception of the scrape call) is logged before it is surfaced; a
\* validation rejection is answered by the framework without a log entry.
C8_CaughtFailuresLogged ==
    /\ (pc = "surface" \/ response.code = 500 \/ response.body.status = "error")
          => FailureLogged
    /\ response.code = 422 => log = <<>>

C8_Witness ==
    /\ pc = "done"
    /\ endpoint = "post"
    /\ response.code = 500
    /\ exc.msg = "connection timed out"
    /\ log[Len(log)] = LogEntry("ERROR", "POST search failed: connection timed out")

\* C9 as stated: for every external outcome the two search endpoints give
\* the same response body.
C9_SameBody ==
    Answered => response.body = OtherResponse.body

\* C9 as amended: for every external outcome the two search endpoints give
\* the same success, total_jobs and jobs, and the same message when the
\* result has rows; on an absent or empty result the messages differ ("No
\* jobs found for the search criteria" on GET, "No jobs found" on POST).
C9_SameBodyButEmptyMessage ==
    Answered =>
        /\ response.code = OtherResponse.code
        /\ response.body.success = OtherResponse.body.success
        /\ response.body.total_jobs = OtherResponse.body.total_jobs
        /\ response.body.jobs = OtherResponse.body.jobs
        /\ IF jobs_df.kind = "df" /\ Len(jobs_df.records) > 0
           THEN response.body.message = OtherResponse.body.message
           ELSE /\ response.body.message # OtherResponse.body.message
                /\ {response.body.message, OtherResponse.body.message} =
                      {"No jobs found for the search criteria", "No jobs found"}

C9_Witness ==
    /\ Answered
    /\ endpoint = "post"
    /\ Len(jobs_df.records) = 2
    /\ jobs_df.records[1]["title"] = NaN
    /\ response.body.jobs[1]["title"] = None
    /\ response.body = SimpleResponse(jobs_df).body

\* C10 as stated: every scrape call carries the search_term of the accepted
\* request, the empty string included, on both search endpoints.
C10_SearchTermAlwaysPassed ==
    (Search /\ called) => <<"search_term", request.search_term>> \in kwargs

\* C10 as amended: the scrape call of GET /search-jobs-simple always carries
\* the request's search_term; the call of POST /search-jobs carries it when
\* it is not the empty string and carries no search_term at all when it is.
C10_SearchTermPassedUnlessEmptyOnPost ==
    (Search /\ called) =>
        IF endpoint = "post" /\ request.search_term = PyStr("")
        THEN Named("search_term") = {}
        ELSE Named("search_term") = {<<"search_term", request.search_term>>}

C10_Witness ==
    /\ called
    /\ endpoint = "simple"
    /\ request.search_term = PyStr("")
    /\ <<"search_term", PyStr("")>> \in kwargs

====
